---- MODULE Spec2Model ----
(***************************************************************************)
(* Model of DocumentSearchEngine (src/document_search.py): the inverted    *)
(* index with its term statistics, TF-IDF search in OR / AND / PHRASE      *)
(* mode, snippet extraction, statistics and pickle persistence.            *)
(*                                                                         *)
(* A Python str is modelled as a sequence of one-character strings, so     *)
(* that lower(), re.sub, split(), count() and slicing are computed on      *)
(* characters as the code computes them.                                   *)
(***************************************************************************)
EXTENDS Integers, Sequences, FiniteSets, TLC

(***************************************************************************)
(* Bounds of the model.                                                    *)
(***************************************************************************)
\* number of add_document calls in one run
MaxAdds == 3
\* number of search / get_document_snippet / get_statistics calls in one run
MaxQueries == 1
\* number of save_index / load_index calls in one run
MaxPersist == 2

(***************************************************************************)
(* Characters.                                                             *)
(***************************************************************************)
UpperChars ==
    <<"A", "B", "C", "D", "E", "F", "G", "H", "I", "J", "K", "L", "M",
      "N", "O", "P", "Q", "R", "S", "T", "U", "V", "W", "X", "Y", "Z">>

LowerChars ==
    <<"a", "b", "c", "d", "e", "f", "g", "h", "i", "j", "k", "l", "m",
      "n", "o", "p", "q", "r", "s", "t", "u", "v", "w", "x", "y", "z">>

DigitChars == {"0", "1", "2", "3", "4", "5", "6", "7", "8", "9"}

\* the characters matched by \s and split on by str.split()
WhitespaceChars == {" ", "\t", "\n", "\r", "\f"}

Range(s) == {s[i] : i \in DOMAIN s}

\* str.lower() on the characters it changes
LowerOf == [c \in Range(UpperChars) |->
               LowerChars[CHOOSE i \in DOMAIN UpperChars : UpperChars[i] = c]]

\* one character of str.lower()
LowerChar(c) == IF c \in DOMAIN LowerOf THEN LowerOf[c] ELSE c

\* str.lower()
Lower(text) == [i \in DOMAIN text |-> LowerChar(text[i])]

\* the characters that the class [^a-z0-9\s] does not match
KeptChars == Range(LowerChars) \cup DigitChars \cup WhitespaceChars

\* re.sub(r'[^a-z0-9\s]', ' ', text)
StripPunctuation(text) ==
    [i \in DOMAIN text |-> IF text[i] \in KeptChars THEN text[i] ELSE " "]

\* str.split(): the maximal runs of non-whitespace characters, in order;
\* cur is the run being read
RECURSIVE SplitFrom(_, _, _)
SplitFrom(text, i, cur) ==
    IF i > Len(text)
    THEN IF cur = <<>> THEN <<>> ELSE <<cur>>
    ELSE IF text[i] \in WhitespaceChars
         THEN IF cur = <<>>
              THEN SplitFrom(text, i + 1, <<>>)
              ELSE <<cur>> \o SplitFrom(text, i + 1, <<>>)
         ELSE SplitFrom(text, i + 1, Append(cur, text[i]))

Split(text) == SplitFrom(text, 1, <<>>)

\* self.stopwords, the built-in default of the constructor
stopwords == {
    <<"a">>, <<"a", "n">>, <<"a", "n", "d">>, <<"a", "r", "e">>,
    <<"a", "s">>, <<"a", "t">>, <<"b", "e">>, <<"b", "y">>,
    <<"f", "o", "r">>, <<"f", "r", "o", "m">>, <<"h", "a", "s">>,
    <<"h", "e">>, <<"i", "n">>, <<"i", "s">>, <<"i", "t">>,
    <<"i", "t", "s">>, <<"o", "f">>, <<"o", "n">>, <<"t", "h", "a", "t">>,
    <<"t", "h", "e">>, <<"t", "o">>, <<"w", "a", "s">>,
    <<"w", "i", "l", "l">>, <<"w", "i", "t", "h">>, <<"t", "h", "e">>,
    <<"t", "h", "i", "s">>, <<"b", "u", "t">>, <<"t", "h", "e", "y">>,
    <<"h", "a", "v", "e">>, <<"h", "a", "d">>, <<"w", "h", "a", "t">>,
    <<"w", "h", "e", "n">>, <<"w", "h", "e", "r", "e">>, <<"w", "h", "o">>,
    <<"w", "h", "i", "c", "h">>, <<"w", "h", "y">>, <<"h", "o", "w">> }

\* the token filter of preprocess_text
KeepToken(token) == token \notin stopwords /\ Len(token) > 2

\* preprocess_text: lowercase, strip punctuation, split, filter
preprocess_text(text) ==
    SelectSeq(Split(StripPunctuation(Lower(text))), KeepToken)

\* Counter(tokens)[term]
CountOf(tokens, term) == Cardinality({i \in DOMAIN tokens : tokens[i] = term})

\* dict(Counter(tokens))
TermCounts(tokens) == [t \in Range(tokens) |-> CountOf(tokens, t)]

(***************************************************************************)
(* The engine object.  A dict is a function on its keys; documents_order   *)
(* is the insertion order of the dict self.documents.  A metadata dict is  *)
(* a set of <<key, value>> pairs and an optional argument is a sequence of *)
(* length 0 (None) or 1.                                                   *)
(***************************************************************************)
\* the fields set by __init__; inverted_index_is_defaultdict tells whether
\* self.inverted_index is the defaultdict(set) of __init__ or the plain dict
\* that load_index puts in its place
EmptyEngine ==
    [documents |-> <<>>,
     documents_order |-> <<>>,
     doc_metadata |-> <<>>,
     inverted_index |-> <<>>,
     inverted_index_is_defaultdict |-> TRUE,
     term_frequencies |-> <<>>,
     doc_frequencies |-> <<>>,
     doc_lengths |-> <<>>]

\* d[key] = value
DictSet(d, key, value) ==
    [k \in DOMAIN d \cup {key} |-> IF k = key THEN value ELSE d[k]]

\* d.get(key, default)
DictGet(d, key, default) == IF key \in DOMAIN d THEN d[key] ELSE default

\* metadata or {}
MetadataOrEmpty(metadata) ==
    IF metadata = <<>> THEN {} ELSE metadata[1]

\* insertion order of self.documents after self.documents[doc_id] = content
OrderAfterSet(e, doc_id) ==
    IF doc_id \in DOMAIN e.documents
    THEN e.documents_order
    ELSE Append(e.documents_order, doc_id)

\* the loop "for term in unique_terms" of add_document run over the terms
\* of processed: self.inverted_index[term].add(doc_id) and
\* self.doc_frequencies[term] += 1
IndexTerms(e, doc_id, processed) ==
    [e EXCEPT
        !.inverted_index =
            [t \in DOMAIN e.inverted_index \cup processed |->
                DictGet(e.inverted_index, t, {})
                    \cup (IF t \in processed THEN {doc_id} ELSE {})],
        !.doc_frequencies =
            [t \in DOMAIN e.doc_frequencies \cup processed |->
                DictGet(e.doc_frequencies, t, 0)
                    + (IF t \in processed THEN 1 ELSE 0)]]

\* StoreDocument recording the number of distinct terms as the length
StoreDocumentUniqueLength(e, doc_id, content, metadata) ==
    LET tokens == preprocess_text(content) IN
    [e EXCEPT
        !.documents = DictSet(e.documents, doc_id, content),
        !.documents_order = OrderAfterSet(e, doc_id),
        !.doc_metadata =
            DictSet(e.doc_metadata, doc_id, MetadataOrEmpty(metadata)),
        !.term_frequencies =
            DictSet(e.term_frequencies, doc_id, TermCounts(tokens)),
        !.doc_lengths =
            DictSet(e.doc_lengths, doc_id, Cardinality(Range(tokens)))]

\* the assignments of add_document that precede the loop
StoreDocument(e, doc_id, content, metadata) ==
    LET tokens == preprocess_text(content) IN
    [e EXCEPT
        !.documents = DictSet(e.documents, doc_id, content),
        !.documents_order = OrderAfterSet(e, doc_id),
        !.doc_metadata =
            DictSet(e.doc_metadata, doc_id, MetadataOrEmpty(metadata)),
        !.term_frequencies =
            DictSet(e.term_frequencies, doc_id, TermCounts(tokens)),
        !.doc_lengths = DictSet(e.doc_lengths, doc_id, Len(tokens))]

\* add_document: the set of outcomes [engine, raised].  With the defaultdict
\* every term of the document is indexed.  With the plain dict of load_index
\* self.inverted_index[term] raises KeyError at the first term that is not a
\* key; the loop runs over a set, so any subset of the terms that are keys
\* may have been indexed before it.
add_document(e, doc_id, content, metadata) ==
    LET stored == StoreDocument(e, doc_id, content, metadata)
        unique_terms == Range(preprocess_text(content))
        known == unique_terms \cap DOMAIN e.inverted_index
    IN  IF e.inverted_index_is_defaultdict \/ unique_terms = known
        THEN {[engine |-> IndexTerms(stored, doc_id, unique_terms),
               raised |-> "none"]}
        ELSE {[engine |-> IndexTerms(stored, doc_id, processed),
               raised |-> "KeyError"] : processed \in SUBSET known}

(***************************************************************************)
(* Scores.  A float is modelled as an exact fraction [num, den].  For a    *)
(* TF-IDF score num is in units of 10^-6: math.log(n / m) is               *)
(* LnMicro[n] - LnMicro[m], and LnMicro is additive over products, so that *)
(* two scores that are equal as real numbers are equal in the model.       *)
(***************************************************************************)
\* math.log of 1..8 in units of 10^-6
LnMicro ==
    <<0, 693147, 1098612, 1386294, 1609438, 1791759, 1945910, 2079441>>

\* the float 0.0
ZeroScore == [num |-> 0, den |-> 1]

\* a + b
AddScore(a, b) ==
    IF a.den = b.den
    THEN [num |-> a.num + b.num, den |-> a.den]
    ELSE [num |-> a.num * b.den + b.num * a.den, den |-> a.den * b.den]

\* a > b
ScoreGreater(a, b) == a.num * b.den > b.num * a.den

\* a == b
ScoreEqual(a, b) == a.num * b.den = b.num * a.den

\* calculate_tf_idf
calculate_tf_idf(e, term, doc_id) ==
    IF doc_id \notin DOMAIN e.term_frequencies
       \/ term \notin DOMAIN e.term_frequencies[doc_id]
    THEN ZeroScore
    ELSE LET num_docs == Cardinality(DOMAIN e.documents)
             doc_freq == DictGet(e.doc_frequencies, term, 0)
         IN  IF doc_freq = 0
             THEN ZeroScore
             ELSE [num |-> e.term_frequencies[doc_id][term]
                               * (LnMicro[num_docs] - LnMicro[doc_freq]),
                   den |-> e.doc_lengths[doc_id]]

\* the score of one candidate: the sum over the list query_terms, starting
\* from 0.0
RECURSIVE SumTfIdf(_, _, _, _)
SumTfIdf(e, query_terms, i, doc_id) ==
    IF i = 0
    THEN ZeroScore
    ELSE AddScore(SumTfIdf(e, query_terms, i - 1, doc_id),
                  calculate_tf_idf(e, query_terms[i], doc_id))

DocScore(e, query_terms, doc_id) ==
    SumTfIdf(e, query_terms, Len(query_terms), doc_id)

\* candidate_docs of the AND branch
RECURSIVE AndCandidates(_, _, _)
AndCandidates(e, query_terms, i) ==
    IF i = 0
    THEN DOMAIN e.documents
    ELSE AndCandidates(e, query_terms, i - 1)
            \cap DictGet(e.inverted_index, query_terms[i], {})

\* OrCandidates with &= in place of |=: the empty set stays empty
OrCandidatesIntersected(e, query_terms) ==
    {d \in {} :
        \A i \in DOMAIN query_terms :
            d \in DictGet(e.inverted_index, query_terms[i], {})}

\* candidate_docs of the OR branch
OrCandidates(e, query_terms) ==
    UNION {DictGet(e.inverted_index, query_terms[i], {}) :
              i \in DOMAIN query_terms}

\* one element of the result list
Hit(e, doc_id, score) ==
    <<doc_id, score, DictGet(e.doc_metadata, doc_id, {})>>

\* seq[:top_k]
Truncate(seq, top_k) ==
    LET n == IF top_k >= 0
             THEN (IF top_k < Len(seq) THEN top_k ELSE Len(seq))
             ELSE (IF Len(seq) + top_k > 0 THEN Len(seq) + top_k ELSE 0)
    IN  SubSeq(seq, 1, n)

\* the arrangements of the set hits as a list
Arrangements(hits) ==
    {s \in [1..Cardinality(hits) -> hits] :
        \A i, j \in DOMAIN s : i # j => s[i] # s[j]}

\* position of doc_id in the insertion order of self.documents
Position(e, doc_id) ==
    CHOOSE i \in DOMAIN e.documents_order : e.documents_order[i] = doc_id

\* list.sort(key=lambda x: x[1], reverse=True) is stable: hits of equal
\* score keep the order in which the list was built
SortedByScore(s) ==
    \A i, j \in DOMAIN s : i < j => ~ScoreGreater(s[j][2], s[i][2])

\* the lists scores.sort can leave in the OR / AND branches: the list was
\* built by iterating over the set candidate_docs, whose order is not
\* specified, so hits of equal score may come in any order
ScoredLists(e, query_terms, candidate_docs) ==
    LET hits == {Hit(e, d, DocScore(e, query_terms, d)) :
                    d \in {c \in candidate_docs :
                              ScoreGreater(DocScore(e, query_terms, c),
                                           ZeroScore)}}
    IN  {s \in Arrangements(hits) : SortedByScore(s)}

\* str.count(sub): the non-overlapping occurrences of sub from position i on
RECURSIVE CountFrom(_, _, _)
CountFrom(text, sub, i) ==
    IF i + Len(sub) - 1 > Len(text)
    THEN 0
    ELSE IF SubSeq(text, i, i + Len(sub) - 1) = sub
         THEN 1 + CountFrom(text, sub, i + Len(sub))
         ELSE CountFrom(text, sub, i + 1)

StrCount(text, sub) ==
    IF sub = <<>> THEN Len(text) + 1 ELSE CountFrom(text, sub, 1)

\* the documents _phrase_search appends to results, i.e. count > 0
PhraseMatches(e, phrase) ==
    {d \in DOMAIN e.documents :
        StrCount(Lower(e.documents[d]), Lower(phrase)) > 0}

\* PhraseScore dividing by the number of tokens of the document
PhraseScoreTokens(e, phrase, doc_id) ==
    [num |-> StrCount(Lower(e.documents[doc_id]), Lower(phrase)),
     den |-> Len(preprocess_text(e.documents[doc_id]))]

\* score = count / len(content.split())
PhraseScore(e, phrase, doc_id) ==
    [num |-> StrCount(Lower(e.documents[doc_id]), Lower(phrase)),
     den |-> Len(Split(e.documents[doc_id]))]

\* _phrase_search: results is built in the insertion order of
\* self.documents and sorted stably; the division raises when a matching
\* document has no word
_phrase_search(e, phrase, top_k) ==
    LET matches == PhraseMatches(e, phrase)
        hits == {Hit(e, d, PhraseScore(e, phrase, d)) : d \in matches}
    IN  IF \E d \in matches : Len(Split(e.documents[d])) = 0
        THEN {[result |-> <<>>, raised |-> "ZeroDivisionError"]}
        ELSE {[result |-> Truncate(s, top_k), raised |-> "none"] :
                 s \in {a \in Arrangements(hits) :
                           /\ SortedByScore(a)
                           /\ \A i, j \in DOMAIN a :
                                 (i < j /\ ScoreEqual(a[i][2], a[j][2]))
                                    => Position(e, a[i][1])
                                          < Position(e, a[j][1])}}

\* search dispatching on the mode before it looks at query_terms
searchModeFirst(e, query, mode, top_k) ==
    LET query_terms == preprocess_text(query) IN
    IF mode = "PHRASE"
    THEN _phrase_search(e, query, top_k)
    ELSE IF query_terms = <<>>
    THEN {[result |-> <<>>, raised |-> "none"]}
    ELSE IF mode = "AND"
    THEN {[result |-> Truncate(s, top_k), raised |-> "none"] :
             s \in ScoredLists(e, query_terms,
                      AndCandidates(e, query_terms, Len(query_terms)))}
    ELSE {[result |-> Truncate(s, top_k), raised |-> "none"] :
             s \in ScoredLists(e, query_terms,
                      OrCandidates(e, query_terms))}

\* search: the set of outcomes [result, raised]
search(e, query, mode, top_k) ==
    LET query_terms == preprocess_text(query) IN
    IF query_terms = <<>>
    THEN {[result |-> <<>>, raised |-> "none"]}
    ELSE IF mode = "AND"
    THEN {[result |-> Truncate(s, top_k), raised |-> "none"] :
             s \in ScoredLists(e, query_terms,
                      AndCandidates(e, query_terms, Len(query_terms)))}
    ELSE IF mode = "PHRASE"
    THEN _phrase_search(e, query, top_k)
    ELSE {[result |-> Truncate(s, top_k), raised |-> "none"] :
             s \in ScoredLists(e, query_terms,
                      OrCandidates(e, query_terms))}

\* d[key] on a defaultdict, which inserts the default under a missing key
DictAfterSubscript(d, key, default) ==
    IF key \in DOMAIN d THEN d ELSE DictSet(d, key, default)

\* the dict d after d.get(key, default): get does not insert the key
DictAfterGet(d, key, default) == d

\* the dict d after a look-up of every key of keys
RECURSIVE DictAfterLookups(_, _, _)
DictAfterLookups(d, keys, default) ==
    IF keys = {}
    THEN d
    ELSE LET k == CHOOSE x \in keys : TRUE
         IN  DictAfterLookups(DictAfterGet(d, k, default), keys \ {k},
                              default)

\* the engine after search: the OR and AND branches look every query term
\* up in self.inverted_index, and calculate_tf_idf looks a term up in
\* self.doc_frequencies when a candidate has it in its term-frequency table
EngineAfterSearch(e, query, mode) ==
    LET query_terms == preprocess_text(query)
        candidate_docs ==
            IF mode = "AND"
            THEN AndCandidates(e, query_terms, Len(query_terms))
            ELSE OrCandidates(e, query_terms)
        scored_terms ==
            {t \in Range(query_terms) :
                \E d \in candidate_docs :
                    /\ d \in DOMAIN e.term_frequencies
                    /\ t \in DOMAIN e.term_frequencies[d]}
    IN  IF query_terms = <<>> \/ mode = "PHRASE"
        THEN e
        ELSE [e EXCEPT
                 !.inverted_index =
                     DictAfterLookups(e.inverted_index, Range(query_terms),
                                      {}),
                 !.doc_frequencies =
                     DictAfterLookups(e.doc_frequencies, scored_terms, 0)]

(***************************************************************************)
(* Snippets and statistics.                                                *)
(***************************************************************************)
\* the characters matched by \w
WordChars == Range(LowerChars) \cup Range(UpperChars) \cup DigitChars \cup {"_"}

Max(a, b) == IF a > b THEN a ELSE b

Min(a, b) == IF a < b THEN a ELSE b

\* an index of a slice, clamped as Python clamps it
SliceIndex(text, i) ==
    IF i < 0 THEN Max(Len(text) + i, 0) ELSE Min(i, Len(text))

\* text[start:end], 0-based and end-exclusive
Slice(text, start, end) ==
    SubSeq(text, SliceIndex(text, start) + 1, SliceIndex(text, end))

\* whether re.compile(r'\b' + re.escape(term) + r'\b', re.IGNORECASE)
\* matches content at the 0-based offset pos
MatchesAt(content, term, pos) ==
    /\ pos + Len(term) <= Len(content)
    /\ Lower(SubSeq(content, pos + 1, pos + Len(term))) = term
    /\ pos = 0 \/ content[pos] \notin WordChars
    /\ pos + Len(term) = Len(content)
          \/ content[pos + Len(term) + 1] \notin WordChars

\* the offsets match.start() of the query terms that match
MatchStarts(content, query_terms) ==
    {pos \in 0..Len(content) :
        \E i \in DOMAIN query_terms :
            /\ MatchesAt(content, query_terms[i], pos)
            /\ \A q \in 0..(pos - 1) : ~MatchesAt(content, query_terms[i], q)}

\* the minimum of a non-empty set of integers
SetMin(S) == CHOOSE x \in S : \A y \in S : x <= y

Ellipsis == <<".", ".", ".">>

\* get_document_snippet
get_document_snippet(e, doc_id, query, snippet_length) ==
    IF doc_id \notin DOMAIN e.documents
    THEN <<>>
    ELSE LET content == e.documents[doc_id]
             starts == MatchStarts(content, preprocess_text(query))
             best_pos == IF starts = {} THEN Len(content)
                         ELSE Min(Len(content), SetMin(starts))
         IN  IF best_pos = Len(content)
             THEN Slice(content, 0, snippet_length) \o Ellipsis
             ELSE LET start == Max(0, best_pos - (snippet_length \div 2))
                      end == Min(Len(content), start + snippet_length)
                  IN  (IF start > 0 THEN Ellipsis ELSE <<>>)
                         \o Slice(content, start, end)
                         \o (IF end < Len(content) THEN Ellipsis ELSE <<>>)

\* sum(d.values()) of a dict of integers
RECURSIVE SumValues(_, _)
SumValues(d, keys) ==
    IF keys = {}
    THEN 0
    ELSE LET k == CHOOSE x \in keys : TRUE
         IN  d[k] + SumValues(d, keys \ {k})

\* get_statistics
get_statistics(e) ==
    [total_documents |-> Cardinality(DOMAIN e.documents),
     total_terms |-> Cardinality(DOMAIN e.inverted_index),
     average_doc_length |->
        IF DOMAIN e.doc_lengths # {}
        THEN [num |-> SumValues(e.doc_lengths, DOMAIN e.doc_lengths),
              den |-> Cardinality(DOMAIN e.doc_lengths)]
        ELSE ZeroScore]

(***************************************************************************)
(* Persistence.  The file holds the pickled index_data.                    *)
(***************************************************************************)
\* list(v) of a set: its elements in an order the code does not choose
ListOfSet(S) ==
    CHOOSE s \in [1..Cardinality(S) -> S] :
        \A i, j \in DOMAIN s : i # j => s[i] # s[j]

\* index_data of save_index
save_index(e) ==
    [documents |-> e.documents,
     documents_order |-> e.documents_order,
     doc_metadata |-> e.doc_metadata,
     inverted_index |->
        [k \in DOMAIN e.inverted_index |-> ListOfSet(e.inverted_index[k])],
     term_frequencies |-> e.term_frequencies,
     doc_frequencies |-> e.doc_frequencies,
     doc_lengths |-> e.doc_lengths]

\* the fields load_index assigns from index_data; self.inverted_index becomes
\* a plain dict, self.doc_frequencies a defaultdict(int)
load_index(index_data) ==
    [documents |-> index_data.documents,
     documents_order |-> index_data.documents_order,
     doc_metadata |-> index_data.doc_metadata,
     inverted_index |->
        [k \in DOMAIN index_data.inverted_index |->
            Range(index_data.inverted_index[k])],
     inverted_index_is_defaultdict |-> FALSE,
     term_frequencies |-> index_data.term_frequencies,
     doc_frequencies |-> index_data.doc_frequencies,
     doc_lengths |-> index_data.doc_lengths]

(***************************************************************************)
(* State.  engine is the DocumentSearchEngine object, file the index file  *)
(* on disk (a sequence holding the pickled index_data once it is written). *)
(* call is the last call made on the engine, with its arguments; result,   *)
(* snippet and statistics hold what it returned and raised the exception   *)
(* it raised ("none" when it returned).                                    *)
(***************************************************************************)
VARIABLES engine, file, call, result, snippet, statistics, raised,
          adds, queries, persists

vars == <<engine, file, call, result, snippet, statistics, raised,
          adds, queries, persists>>

\* a call and its arguments; the arguments a call does not take are left at
\* the values below
NoCall ==
    [op |-> "__init__", doc_id |-> "", text |-> <<>>, metadata |-> <<>>,
     mode |-> "", top_k |-> 0, snippet_length |-> 0]

NoStatistics ==
    [total_documents |-> 0, total_terms |-> 0,
     average_doc_length |-> ZeroScore]

Init ==
    /\ engine = EmptyEngine
    /\ file = <<>>
    /\ call = NoCall
    /\ result = <<>>
    /\ snippet = <<>>
    /\ statistics = NoStatistics
    /\ raised = "none"
    /\ adds = 0
    /\ queries = 0
    /\ persists = 0

\* engine.add_document(doc_id, content, metadata)
AddDocumentOf(ids, contents, metadatas) ==
    /\ adds < MaxAdds
    /\ \E doc_id \in ids, content \in contents, metadata \in metadatas :
         \E outcome \in add_document(engine, doc_id, content, metadata) :
            /\ engine' = outcome.engine
            /\ raised' = outcome.raised
            /\ call' = [NoCall EXCEPT !.op = "add_document",
                                      !.doc_id = doc_id,
                                      !.text = content,
                                      !.metadata = metadata]
    /\ adds' = adds + 1
    /\ result' = <<>>
    /\ snippet' = <<>>
    /\ statistics' = NoStatistics
    /\ UNCHANGED <<file, queries, persists>>

\* engine.search(query, mode, top_k)
SearchOf(queryset, modes, top_ks) ==
    /\ queries < MaxQueries
    /\ \E query \in queryset, mode \in modes, top_k \in top_ks :
         \E outcome \in search(engine, query, mode, top_k) :
            /\ result' = outcome.result
            /\ raised' = outcome.raised
            /\ call' = [NoCall EXCEPT !.op = "search",
                                      !.text = query,
                                      !.mode = mode,
                                      !.top_k = top_k]
            /\ engine' = EngineAfterSearch(engine, query, mode)
    /\ queries' = queries + 1
    /\ snippet' = <<>>
    /\ statistics' = NoStatistics
    /\ UNCHANGED <<file, adds, persists>>

\* engine.get_document_snippet(doc_id, query, snippet_length)
GetDocumentSnippetOf(ids, queryset, lengths) ==
    /\ queries < MaxQueries
    /\ \E doc_id \in ids, query \in queryset, snippet_length \in lengths :
         /\ snippet' = get_document_snippet(engine, doc_id, query,
                                            snippet_length)
         /\ call' = [NoCall EXCEPT !.op = "get_document_snippet",
                                   !.doc_id = doc_id,
                                   !.text = query,
                                   !.snippet_length = snippet_length]
    /\ queries' = queries + 1
    /\ raised' = "none"
    /\ result' = <<>>
    /\ statistics' = NoStatistics
    /\ UNCHANGED <<engine, file, adds, persists>>

\* engine.get_statistics()
GetStatistics ==
    /\ queries < MaxQueries
    /\ statistics' = get_statistics(engine)
    /\ call' = [NoCall EXCEPT !.op = "get_statistics"]
    /\ queries' = queries + 1
    /\ raised' = "none"
    /\ result' = <<>>
    /\ snippet' = <<>>
    /\ UNCHANGED <<engine, file, adds, persists>>

\* engine.save_index(filepath)
SaveIndex ==
    /\ persists < MaxPersist
    /\ file' = <<save_index(engine)>>
    /\ call' = [NoCall EXCEPT !.op = "save_index"]
    /\ persists' = persists + 1
    /\ raised' = "none"
    /\ result' = <<>>
    /\ snippet' = <<>>
    /\ statistics' = NoStatistics
    /\ UNCHANGED <<engine, adds, queries>>

\* engine.load_index(filepath); open() raises when the file was never saved
LoadIndex ==
    /\ persists < MaxPersist
    /\ IF file = <<>>
       THEN /\ raised' = "FileNotFoundError"
            /\ UNCHANGED engine
       ELSE /\ raised' = "none"
            /\ engine' = load_index(file[1])
    /\ call' = [NoCall EXCEPT !.op = "load_index"]
    /\ persists' = persists + 1
    /\ result' = <<>>
    /\ snippet' = <<>>
    /\ statistics' = NoStatistics
    /\ UNCHANGED <<file, adds, queries>>

(***************************************************************************)
(* Inputs.                                                                 *)
(***************************************************************************)
Modes == {"OR", "AND", "PHRASE"}

\* metadata=None and metadata={'title': 'T'}
NoMetadata == <<>>

TitleMetadata == <<{<<"title", "T">>}>>

\* "Cat, dog emu emu"
TextCatDogEmu == <<"C", "a", "t", ",", " ", "d", "o", "g", " ", "e", "m", "u", " ", "e", "m", "u">>

\* "dog"
TextDog == <<"d", "o", "g">>

\* "the is"
TextTheIs == <<"t", "h", "e", " ", "i", "s">>

\* "cat dog"
TextCatDog == <<"c", "a", "t", " ", "d", "o", "g">>

\* ""
TextEmpty == <<>>

\* "python is a programming language"
TextPython == <<"p", "y", "t", "h", "o", "n", " ", "i", "s", " ", "a", " ", "p", "r", "o", "g", "r", "a", "m", "m", "i", "n", "g", " ", "l", "a", "n", "g", "u", "a", "g", "e">>

\* "java is a programming language"
TextJava == <<"j", "a", "v", "a", " ", "i", "s", " ", "a", " ", "p", "r", "o", "g", "r", "a", "m", "m", "i", "n", "g", " ", "l", "a", "n", "g", "u", "a", "g", "e">>

\* "programming language"
TextProgrammingLanguage == <<"p", "r", "o", "g", "r", "a", "m", "m", "i", "n", "g", " ", "l", "a", "n", "g", "u", "a", "g", "e">>

\* "is a"
TextIsA == <<"i", "s", " ", "a">>

\* "Python is a"
TextPythonIsA == <<"P", "y", "t", "h", "o", "n", " ", "i", "s", " ", "a">>

\* "the and is"
TextTheAndIs == <<"t", "h", "e", " ", "a", "n", "d", " ", "i", "s">>

(***************************************************************************)
(* The whole engine: every operation, on two documents.                    *)
(***************************************************************************)
DocIds == {"d1", "d2"}

Contents == {TextCatDogEmu, TextDog}

Metadatas == {NoMetadata, TitleMetadata}

Queries == {TextCatDog, TextTheIs}

TopKs == {2}

SnippetLengths == {6}

AddDocument == AddDocumentOf(DocIds, Contents, {TitleMetadata})

Search == SearchOf(Queries, Modes, TopKs)

GetDocumentSnippet == GetDocumentSnippetOf(DocIds, Queries, SnippetLengths)

Next ==
    \/ AddDocument
    \/ Search
    \/ GetDocumentSnippet
    \/ GetStatistics
    \/ SaveIndex
    \/ LoadIndex

Spec == Init /\ [][Next]_vars

(***************************************************************************)
(* Indexing and persistence.                                               *)
(***************************************************************************)
IndexContents == {TextCatDogEmu, TextDog, TextTheIs}

IndexDocument == AddDocumentOf(DocIds, IndexContents, Metadatas)

NextIndex ==
    \/ IndexDocument
    \/ SaveIndex
    \/ LoadIndex

SpecIndex == Init /\ [][NextIndex]_vars

(***************************************************************************)
(* Indexing and search, on three documents.                                *)
(***************************************************************************)
SearchDocIds == {"d1", "d2", "d3"}

SearchQueries == {TextCatDog, TextTheIs}

SearchTopKs == {-1, 1, 3}

AddSearchDocument == AddDocumentOf(SearchDocIds, IndexContents, {NoMetadata})

SearchDocuments == SearchOf(SearchQueries, Modes, SearchTopKs)

NextSearch ==
    \/ AddSearchDocument
    \/ SearchDocuments

SpecSearch == Init /\ [][NextSearch]_vars

(***************************************************************************)
(* The scenario corpus of two five-word documents.                         *)
(***************************************************************************)
ScenarioDocIds == {"doc1", "doc2"}

ScenarioContents == {TextPython, TextJava}

ScenarioQueries ==
    {TextProgrammingLanguage, TextIsA, TextPythonIsA, TextTheAndIs, TextEmpty}

ScenarioTopKs == {0, 2, 10}

AddScenarioDocument ==
    AddDocumentOf(ScenarioDocIds, ScenarioContents, {NoMetadata})

SearchScenario == SearchOf(ScenarioQueries, Modes, ScenarioTopKs)

NextScenario ==
    \/ AddScenarioDocument
    \/ SearchScenario

SpecScenario == Init /\ [][NextScenario]_vars

(***************************************************************************)
(* Properties of the index tables (SpecIndex).                             *)
(***************************************************************************)
\* the six tables of the index state
Tables(e) ==
    <<e.inverted_index, e.term_frequencies, e.doc_frequencies,
      e.doc_lengths, e.documents, e.doc_metadata>>

\* the engine that was only ever given the current content of the first i
\* documents of e, each added once
RECURSIVE OnlyLatest(_, _)
OnlyLatest(e, i) ==
    IF i = 0
    THEN EmptyEngine
    ELSE LET doc_id == e.documents_order[i]
             outcomes == add_document(OnlyLatest(e, i - 1), doc_id,
                                      e.documents[doc_id],
                                      <<e.doc_metadata[doc_id]>>)
         IN  (CHOOSE o \in outcomes : TRUE).engine

\* C1: adding a document again under the same identifier leaves the index
\* state that the same calls without the earlier add_document of that
\* identifier leave: the state is that of an engine that was only given the
\* current content of every document.
C1Claim ==
    Tables(engine) = Tables(OnlyLatest(engine, Len(engine.documents_order)))

\* C2: for every term the document-frequency count equals the number of
\* document identifiers in the term's inverted-index entry (0 for an unseen
\* term).
C2Claim ==
    \A term \in DOMAIN engine.doc_frequencies
                   \cup DOMAIN engine.inverted_index :
        DictGet(engine.doc_frequencies, term, 0)
            = Cardinality(DictGet(engine.inverted_index, term, {}))

\* C3: a document identifier is in the inverted-index entry of a term if and
\* only if the term occurs in the normalized tokens of the content currently
\* stored for the document.
C3Claim ==
    \A doc_id \in DOMAIN engine.documents :
        \A term \in DOMAIN engine.inverted_index
                       \cup Range(preprocess_text(engine.documents[doc_id])) :
            doc_id \in DictGet(engine.inverted_index, term, {})
                <=> term \in Range(preprocess_text(engine.documents[doc_id]))

\* C4: for every stored document the counts of its term-frequency table sum
\* to its recorded length, which is the number of tokens of its current
\* content.
C4Theorem ==
    /\ DOMAIN engine.term_frequencies = DOMAIN engine.documents
    /\ DOMAIN engine.doc_lengths = DOMAIN engine.documents
    /\ \A doc_id \in DOMAIN engine.documents :
          /\ SumValues(engine.term_frequencies[doc_id],
                       DOMAIN engine.term_frequencies[doc_id])
                = engine.doc_lengths[doc_id]
          /\ engine.doc_lengths[doc_id]
                = Len(preprocess_text(engine.documents[doc_id]))

\* the third call adds a document with a repeated token under an identifier
\* that was added before
C4Witness ==
    /\ call.op = "add_document"
    /\ call.text = TextCatDogEmu
    /\ adds = 3
    /\ engine.doc_lengths[call.doc_id] = 4
    /\ engine.doc_frequencies[<<"e", "m", "u">>] = 2
    /\ Cardinality(DOMAIN engine.documents) = 1

(***************************************************************************)
(* Properties of search (SpecSearch).                                      *)
(***************************************************************************)
\* the identifiers of a result list
Ids(hits) == {hits[i][1] : i \in DOMAIN hits}

\* the lengths a search returns when top_k is the number of documents, so
\* that nothing is cut off
UncutLengths(query, mode) ==
    {Len(o.result) :
        o \in search(engine, query, mode,
                     Cardinality(DOMAIN engine.documents))}

\* C5: search returns at most max(top_k, 0) results: none for top_k <= 0,
\* and all scored candidates for a top_k that is at least their number.
C5Claim ==
    (call.op = "search" /\ raised = "none") =>
        /\ Len(result) <= Max(call.top_k, 0)
        /\ \A n \in UncutLengths(call.text, call.mode) :
              call.top_k >= n => Len(result) = n

\* C8: a query whose normalized token sequence is empty makes search return
\* the empty sequence without raising, in every mode.
C8Theorem ==
    (call.op = "search" /\ preprocess_text(call.text) = <<>>) =>
        (result = <<>> /\ raised = "none")

\* a PHRASE search for "is a" with a positive top_k while a document that
\* contains "is a" is stored
C8Witness ==
    /\ call.op = "search"
    /\ call.mode = "PHRASE"
    /\ call.text = TextIsA
    /\ call.top_k > 0
    /\ \E doc_id \in DOMAIN engine.documents :
          engine.documents[doc_id] = TextPython
    /\ result = <<>>

\* C9 as claimed: for every top_k the identifiers returned in AND mode are
\* among those returned in OR mode for the same query and top_k.
C9Claim ==
    (call.op = "search" /\ call.mode = "AND") =>
        \A o \in search(engine, call.text, "OR", call.top_k) :
            Ids(result) \subseteq Ids(o.result)

\* C9 as amended: the inclusion holds for every top_k that is at least the
\* number of documents the OR search scores, i.e. when the OR result is not
\* cut off.
C9Amended ==
    (call.op = "search" /\ call.mode = "AND") =>
        \A n \in UncutLengths(call.text, "OR") :
            call.top_k >= n =>
                \A o \in search(engine, call.text, "OR", call.top_k) :
                    Ids(result) \subseteq Ids(o.result)

\* an AND search that returns a document while the OR search, not cut off by
\* the same top_k, returns that document and another one
C9Witness ==
    /\ call.op = "search"
    /\ call.mode = "AND"
    /\ result # <<>>
    /\ \E o \in search(engine, call.text, "OR", call.top_k) :
          /\ Len(o.result) > Len(result)
          /\ Len(o.result) < call.top_k

(***************************************************************************)
(* The scenarios on the two-document corpus (SpecScenario).                *)
(***************************************************************************)
\* the corpus {doc1: "python is a programming language",
\*             doc2: "java is a programming language"}
CorpusLoaded ==
    /\ DOMAIN engine.documents = {"doc1", "doc2"}
    /\ engine.documents["doc1"] = TextPython
    /\ engine.documents["doc2"] = TextJava

\* C6: on the corpus, the AND search for "programming language" with
\* top_k >= 2 returns both doc1 and doc2.
C6Claim ==
    (/\ CorpusLoaded
     /\ call.op = "search"
     /\ call.mode = "AND"
     /\ call.text = TextProgrammingLanguage
     /\ call.top_k >= 2) =>
        Ids(result) = {"doc1", "doc2"}

\* sub occurs in text
IsSubstring(sub, text) ==
    \E i \in 1..(Len(text) - Len(sub) + 1) :
        SubSeq(text, i, i + Len(sub) - 1) = sub

\* C7 as claimed: with doc1 = "python is a programming language" stored, the
\* PHRASE search for "is a" returns doc1 with score 1 / 5.
C7Claim ==
    (/\ "doc1" \in DOMAIN engine.documents
     /\ engine.documents["doc1"] = TextPython
     /\ call.op = "search"
     /\ call.mode = "PHRASE"
     /\ call.text = TextIsA
     /\ call.top_k >= 2) =>
        \E i \in DOMAIN result :
            /\ result[i][1] = "doc1"
            /\ ScoreEqual(result[i][2], [num |-> 1, den |-> 5])

\* C7 as amended: a PHRASE query is first normalized like any other and
\* answered with the empty sequence when no token is left ("is a"); a query
\* that keeps a token is then matched as a lowercased literal substring,
\* its stopwords and short words included: "Python is a" returns doc1 with
\* score 1 / 5.
C7Amended ==
    (call.op = "search" /\ call.mode = "PHRASE" /\ call.top_k >= 2) =>
        /\ preprocess_text(call.text) = <<>> => result = <<>>
        /\ preprocess_text(call.text) # <<>> =>
              Ids(result) =
                  {d \in DOMAIN engine.documents :
                      IsSubstring(Lower(call.text), Lower(engine.documents[d]))}
        /\ (/\ "doc1" \in DOMAIN engine.documents
            /\ engine.documents["doc1"] = TextPython
            /\ call.text = TextPythonIsA) =>
              \E i \in DOMAIN result :
                  /\ result[i][1] = "doc1"
                  /\ result[i][2] = [num |-> 1, den |-> 5]

\* the PHRASE search for "Python is a" has returned doc1 with score 1 / 5
C7Witness ==
    /\ call.op = "search"
    /\ call.mode = "PHRASE"
    /\ call.text = TextPythonIsA
    /\ \E i \in DOMAIN result :
          /\ result[i][1] = "doc1"
          /\ result[i][2] = [num |-> 1, den |-> 5]

(***************************************************************************)
(* Exceptions (Spec).                                                      *)
(***************************************************************************)
\* C10: add_document, search, get_document_snippet and get_statistics never
\* raise, also after load_index, and add_document indexes the document
\* under every one of its terms.
C10Claim ==
    /\ call.op \in {"add_document", "search", "get_document_snippet",
                    "get_statistics"} => raised = "none"
    /\ call.op = "add_document" =>
          \A term \in Range(preprocess_text(call.text)) :
              call.doc_id \in DictGet(engine.inverted_index, term, {})

(***************************************************************************)
(* Persistence of three documents (SpecPersist).                           *)
(***************************************************************************)
PersistContents == {TextDog, TextTheIs}

AddPersistDocument ==
    AddDocumentOf(SearchDocIds, PersistContents, {TitleMetadata})

NextPersist ==
    \/ AddPersistDocument
    \/ SaveIndex
    \/ LoadIndex

SpecPersist == Init /\ [][NextPersist]_vars

\* the searches compared across a round trip
RoundTripQueries == {TextDog, TextCatDog}

RoundTripTopKs == {1, 3}

\* every search returns in engine b what it returns in engine a
SameResults(a, b) ==
    \A query \in RoundTripQueries, mode \in Modes, top_k \in RoundTripTopKs :
        \A before \in search(a, query, mode, top_k) :
            \A after \in search(b, query, mode, top_k) :
                before.result = after.result

\* C11: save_index followed by load_index leaves the six tables as they were
\* before saving, and every search returns after loading what it returned
\* before saving.
C11Claim ==
    [][(call.op = "save_index" /\ call'.op = "load_index"
            /\ raised' = "none") =>
          (/\ Tables(engine') = Tables(engine)
           /\ SameResults(engine, engine'))]_vars

(***************************************************************************)
(* Determinism of search (SpecScenario).                                   *)
(***************************************************************************)
\* the engines that hold the tables of e: dicts that are equal may differ in
\* the order in which their keys were inserted
EnginesWithTables(e) ==
    {[e EXCEPT !.documents_order = order] :
        order \in Arrangements(DOMAIN e.documents)}

\* C12: the sequence search returns is determined by the tables and the
\* arguments: scores are non-increasing along it, and every engine that
\* holds the same tables returns the same sequence, whatever the order in
\* which documents were inserted or sets are iterated.
C12Claim ==
    call.op = "search" =>
        /\ \A i, j \in DOMAIN result :
              i < j => ~ScoreGreater(result[j][2], result[i][2])
        /\ \A other \in EnginesWithTables(engine) :
              \A o \in search(other, call.text, call.mode, call.top_k) :
                  o.result = result

(***************************************************************************)
(* Effects of the queries (Spec).                                          *)
(***************************************************************************)
\* C13: search, get_document_snippet and get_statistics leave the six
\* tables unchanged, and with them the vocabulary size that get_statistics
\* reports.
C13Theorem ==
    [][call'.op \in {"search", "get_document_snippet", "get_statistics"} =>
          (/\ Tables(engine') = Tables(engine)
           /\ get_statistics(engine').total_terms
                 = get_statistics(engine).total_terms)]_vars

\* an OR search for "cat dog" was made on an index that has the term dog but
\* not the term cat
C13Witness ==
    /\ call.op = "search"
    /\ call.mode = "OR"
    /\ call.text = TextCatDog
    /\ <<"d", "o", "g">> \in DOMAIN engine.inverted_index
    /\ <<"c", "a", "t">> \notin DOMAIN engine.inverted_index

====
